---- MODULE Spec2Model ----
(***************************************************************************)
(* One request through the catch-all proxy handler of                      *)
(* server/api/proxy/[...path].ts.  Strings are TLA+ strings handled as     *)
(* character sequences (Len, SubSeq, \o), so startsWith / includes / split *)
(* / replace are computed on the characters, as the handler computes them. *)
(* An absent header and an empty one are both "" (both are falsy in the    *)
(* handler's tests).                                                       *)
(***************************************************************************)
EXTENDS Integers, Sequences, FiniteSets, TLC

VARIABLES req, cfg, pc, pathString, forcedMethod, isAuthEndpoint, service,
          baseUrl, isFileRequest, url, headers, options, tokenLog, calls,
          response, resStatus, resHeaders, thrown, outcome, bodyReads

vars == <<req, cfg, pc, pathString, forcedMethod, isAuthEndpoint, service,
          baseUrl, isFileRequest, url, headers, options, tokenLog, calls,
          response, resStatus, resHeaders, thrown, outcome, bodyReads>>

-----------------------------------------------------------------------------
(* String primitives of the language runtime, on character sequences.      *)

\* The primitives bind their arguments (\E x \in {s}) so that an argument is
\* evaluated once, however often the body refers to it.
StartsWith(s, p) ==
    \E x \in {s}, y \in {p} : Len(x) >= Len(y) /\ SubSeq(x, 1, Len(y)) = y

\* First index (1-based) at which p occurs in s, 0 when it does not occur.
IndexOf(s, p) ==
    CHOOSE n \in
        {(LET hits == {i \in 1..(Len(x) - Len(y) + 1) : SubSeq(x, i, i + Len(y) - 1) = y}
          IN  IF hits = {} THEN 0 ELSE CHOOSE i \in hits : \A j \in hits : i <= j) :
            x \in {s}, y \in {p}} : TRUE

Includes(s, p) ==
    \E x \in {s}, y \in {p} :
        \E i \in 1..(Len(x) - Len(y) + 1) : SubSeq(x, i, i + Len(y) - 1) = y

\* s.substring(n): everything after the first n characters.
Substring(s, n) == SubSeq(s, n + 1, Len(s))

\* s.replace(a, b) with a string pattern: the first occurrence only.
ReplaceFirst(s, a, b) ==
    LET i == IndexOf(s, a)
    IN  IF i = 0 THEN s
        ELSE SubSeq(s, 1, i - 1) \o b \o SubSeq(s, i + Len(a), Len(s))

RECURSIVE Split(_, _)
\* s.split(sep) for a one-character separator: the sequence of the pieces.
Split(s, sep) ==
    LET i == IndexOf(s, sep)
    IN  IF i = 0 THEN <<s>>
        ELSE <<SubSeq(s, 1, i - 1)>> \o Split(Substring(s, i), sep)

RECURSIVE TrimStart(_)
TrimStart(s) == IF s # "" /\ Head(s) = " " THEN TrimStart(Tail(s)) ELSE s

RECURSIVE TrimEnd(_)
TrimEnd(s) ==
    IF s # "" /\ SubSeq(s, Len(s), Len(s)) = " "
    THEN TrimEnd(SubSeq(s, 1, Len(s) - 1)) ELSE s

Trim(s) == TrimEnd(TrimStart(s))

UpperAlpha == "ABCDEFGHIJKLMNOPQRSTUVWXYZ"
LowerAlpha == "abcdefghijklmnopqrstuvwxyz"

LowerChar(c) ==
    LET i == IndexOf(UpperAlpha, c)
    IN  IF i = 0 THEN c ELSE SubSeq(LowerAlpha, i, i)

RECURSIVE ToLowerCase(_)
ToLowerCase(s) == IF s = "" THEN "" ELSE LowerChar(Head(s)) \o ToLowerCase(Tail(s))

RECURSIVE Join(_, _)
Join(parts, sep) ==
    IF Len(parts) = 0 THEN ""
    ELSE IF Len(parts) = 1 THEN parts[1]
    ELSE parts[1] \o sep \o Join(Tail(parts), sep)

\* Characters left alone by encodeURIComponent (letters, digits, - _ . ! ~ * ' ( )).
Unreserved == "ABCDEFGHIJKLMNOPQRSTUVWXYZabcdefghijklmnopqrstuvwxyz0123456789-_.!~*'()"

\* Percent escapes of the other characters the requests of this model carry.
PercentOf(c) ==
    CASE c = "," -> "%2C"
      [] c = "/" -> "%2F"
      [] c = " " -> "%20"
      [] c = "=" -> "%3D"
      [] c = "&" -> "%26"
      [] c = "?" -> "%3F"
      [] c = ":" -> "%3A"
      [] c = "%" -> "%25"
      [] OTHER   -> "%3B"

RECURSIVE EncodeURIComponent(_)
EncodeURIComponent(s) ==
    IF s = "" THEN ""
    ELSE (IF Includes(Unreserved, Head(s)) THEN Head(s) ELSE PercentOf(Head(s)))
         \o EncodeURIComponent(Tail(s))

\* application/x-www-form-urlencoded serialisation of URLSearchParams: the
\* characters * - . _ and alphanumerics stay, a space becomes +.
FormSafe == "ABCDEFGHIJKLMNOPQRSTUVWXYZabcdefghijklmnopqrstuvwxyz0123456789-_.*"

RECURSIVE FormEncode(_)
FormEncode(s) ==
    IF s = "" THEN ""
    ELSE (IF Includes(FormSafe, Head(s)) THEN Head(s)
          ELSE IF Head(s) = " " THEN "+"
          ELSE IF Head(s) = "'" THEN "%27"
          ELSE IF Head(s) = "(" THEN "%28"
          ELSE IF Head(s) = ")" THEN "%29"
          ELSE IF Head(s) = "!" THEN "%21"
          ELSE IF Head(s) = "~" THEN "%7E"
          ELSE PercentOf(Head(s)))
         \o FormEncode(Tail(s))

RECURSIVE SearchParamsToString(_)
\* new URLSearchParams(query).toString() for a query given as <<key, value>> pairs.
SearchParamsToString(q) ==
    IF Len(q) = 0 THEN ""
    ELSE FormEncode(q[1][1]) \o "=" \o FormEncode(q[1][2])
         \o (IF Len(q) = 1 THEN "" ELSE "&" \o SearchParamsToString(Tail(q)))

\* query.<key>: the value of the parameter, "" when it is absent.
QueryGet(q, key) ==
    IF \E i \in 1..Len(q) : q[i][1] = key
    THEN q[CHOOSE i \in 1..Len(q) : q[i][1] = key][2]
    ELSE ""

-----------------------------------------------------------------------------
(* Configuration: the five base URLs read from the environment when the     *)
(* module is loaded.  NODE_ENV is read in the outer catch.                  *)

\* The fallback values of the source.
DefaultConfig ==
    [API_BASE_URL              |-> "http://localhost:8081/api",
     GROUP_API_BASE_URL        |-> "http://localhost:8082/api",
     NOTIFICATION_API_BASE_URL |-> "http://localhost:8083/api",
     FILE_SERVICE_BASE_URL     |-> "http://localhost:8084",
     PRESENCE_SERVICE_BASE_URL |-> "http://localhost:8085/api"]

\* An environment that names the hosts without a scheme, one of them with its
\* port.
BareHostConfig ==
    [API_BASE_URL              |-> "api-svc/api",
     GROUP_API_BASE_URL        |-> "group-svc/api",
     NOTIFICATION_API_BASE_URL |-> "notif-svc:8083/api",
     FILE_SERVICE_BASE_URL     |-> "file-svc",
     PRESENCE_SERVICE_BASE_URL |-> "presence-svc/api"]

BaseUrlConfigs == {DefaultConfig, BareHostConfig}

NodeEnvs == {"development", "production"}

RECURSIVE DropLeadingSlashes(_)
DropLeadingSlashes(s) ==
    IF s # "" /\ Head(s) = "/" THEN DropLeadingSlashes(Tail(s)) ELSE s

RECURSIVE CollapseSlashes(_)
\* s.replace(/([^:]\/)\/+/g, "$1"): a character other than ":" followed by a
\* slash and a run of further slashes keeps the character and one slash.
CollapseSlashes(s) ==
    IF Len(s) < 3 THEN s
    ELSE IF Head(s) # ":" /\ SubSeq(s, 2, 2) = "/" /\ SubSeq(s, 3, 3) = "/"
         THEN SubSeq(s, 1, 2) \o CollapseSlashes(DropLeadingSlashes(Substring(s, 2)))
         ELSE Head(s) \o CollapseSlashes(Tail(s))

ensureValidUrl(u) ==
    CollapseSlashes(IF ~StartsWith(u, "http://") /\ ~StartsWith(u, "https://")
                    THEN "http://" \o u ELSE u)

SchemeChars == "ABCDEFGHIJKLMNOPQRSTUVWXYZabcdefghijklmnopqrstuvwxyz0123456789+-."
Letters == "ABCDEFGHIJKLMNOPQRSTUVWXYZabcdefghijklmnopqrstuvwxyz"
Digits == "0123456789"
SpecialSchemes == {"http", "https", "ws", "wss", "ftp"}

AllIn(s, alphabet) ==
    \E x \in {s} : \A i \in 1..Len(x) : Includes(alphabet, SubSeq(x, i, i))

\* The authority of a special-scheme URL: what follows the slashes after the
\* scheme, up to the path, query or fragment.
AuthorityOf(rest) ==
    LET r    == DropLeadingSlashes(rest)
        ends == {i \in 1..Len(r) : SubSeq(r, i, i) \in {"/", "?", "#"}}
        stop == IF ends = {} THEN Len(r) + 1
                ELSE CHOOSE i \in ends : \A j \in ends : i <= j
    IN  SubSeq(r, 1, stop - 1)

\* Whether new URL(u) succeeds (no base URL): u needs a scheme, and with a
\* special scheme a non-empty host (and a numeric port when one is given).
IsValidUrl(u) ==
    \E x \in {u} : \E c \in {IndexOf(x, ":")} :
    \E scheme \in {ToLowerCase(SubSeq(x, 1, c - 1))}, auth \in {AuthorityOf(Substring(x, c))} :
    LET pc0 == IndexOf(auth, ":")
        host == IF pc0 = 0 THEN auth ELSE SubSeq(auth, 1, pc0 - 1)
        port == IF pc0 = 0 THEN "" ELSE Substring(auth, pc0)
    IN  /\ c > 1
        /\ Includes(Letters, SubSeq(x, 1, 1))
        /\ AllIn(scheme, SchemeChars)
        /\ scheme \in SpecialSchemes =>
              /\ host # ""
              /\ ~Includes(host, " ")
              /\ AllIn(port, Digits)

RECURSIVE CookieFold(_, _, _)
\* cookieStr.split(";").reduce(...)[name]: each piece trimmed and split on "=",
\* the first two parts taken as key and value, later pieces overriding earlier
\* ones; "" when the name is absent or has no value.
CookieFold(pieces, name, acc) ==
    IF Len(pieces) = 0 THEN acc
    ELSE LET kv == Split(Trim(pieces[1]), "=")
             v  == IF Len(kv) >= 2 THEN kv[2] ELSE ""
         IN  CookieFold(Tail(pieces), name, IF kv[1] = name THEN v ELSE acc)

CookieGet(cookieStr, name) == CookieFold(Split(cookieStr, ";"), name, "")

\* JSON.parse(Buffer.from(payload, "base64").toString()) on the payloads the
\* requests of this model carry: {"exp":1}, {"sub":"u"}, and text that is no JSON.
DecodePayload(payload) ==
    CASE payload = "eyJleHAiOjF9"    -> [ok |-> TRUE, hasExp |-> TRUE, exp |-> 1]
      [] payload = "eyJzdWIiOiJ1In0" -> [ok |-> TRUE, hasExp |-> FALSE, exp |-> 0]
      [] OTHER                       -> [ok |-> FALSE, hasExp |-> FALSE, exp |-> 0]

\* validateToken: the value returned and the line it logs.  now is Date.now().
validateToken(token, now) ==
    IF token = "" THEN [valid |-> FALSE, log |-> "No token provided"]
    ELSE LET parts == Split(token, ".")
             header == parts[1]
             payload == IF Len(parts) >= 2 THEN parts[2] ELSE ""
             signature == IF Len(parts) >= 3 THEN parts[3] ELSE ""
             decoded == DecodePayload(payload)
         IN  IF header = "" \/ payload = "" \/ signature = ""
             THEN [valid |-> TRUE, log |-> "Token does not have standard JWT structure"]
             ELSE IF ~decoded.ok
             THEN [valid |-> TRUE, log |-> "Could not decode token payload"]
             ELSE IF decoded.hasExp /\ decoded.exp # 0 /\ now >= decoded.exp * 1000
             THEN [valid |-> TRUE, log |-> "Token may be expired"]
             ELSE [valid |-> TRUE, log |-> "ok"]

-----------------------------------------------------------------------------
(* The inbound requests.                                                    *)

Methods == {"GET", "POST", "PUT", "PATCH", "DELETE", "OPTIONS"}

BodyMethods == {"POST", "PUT", "PATCH", "DELETE"}

\* The catch-all route parameter, joined with "/".
Paths ==
    {"users/profile", "users//profile", "friends/add",
     "auth/login", "register",
     "messages", "message/42", "messages/42", "messages/history",
     "messages/42/read", "message/42/read",
     "api/proxy/messages/7", "messages/ws",
     "notifications", "notifications/messages",
     "presence/users", "presence/ws", "presence/message",
     "groups/7", "group/7/messages",
     "files/a.png", "media/messages", "media/files/a.png"}

\* Authorization and Cookie headers: none; a bare three-segment token whose
\* payload is no JSON; a Bearer token whose payload carries exp = 1, next to a
\* cookie; a cookie alone, carrying auth_token (a single-segment token).
Credentials ==
    {[authorization |-> "", cookie |-> ""],
     [authorization |-> "abc.def.ghi", cookie |-> ""],
     [authorization |-> "Bearer h.eyJleHAiOjF9.s", cookie |-> "theme=dark; auth_token=xyz"],
     [authorization |-> "", cookie |-> "theme=dark; auth_token=xyz"]}

\* Content-Type, Connection and Upgrade headers: a JSON request, a multipart
\* upload, an upgrade handshake.
HeaderProfiles ==
    {[contentType |-> "application/json", connection |-> "keep-alive", upgrade |-> ""],
     [contentType |-> "multipart/form-data; boundary=----b1", connection |-> "keep-alive",
      upgrade |-> ""],
     [contentType |-> "application/json", connection |-> "keep-alive, Upgrade",
      upgrade |-> "WebSocket"]}

\* Query parameters, as <<key, value>> pairs in order.
Queries ==
    {<<>>, <<<<"token", "t1">>>>, <<<<"user_ids", "1,2,3">>, <<"limit", "5">>>>}

\* Further values of user_ids, sent to presence/users: a list whose IDs hold a
\* space or are padded with one, and a single ID holding a space.
UserIdQueries ==
    {<<<<"user_ids", "a b, c">>>>, <<<<"user_ids", "x y">>>>}

QueriesOf(p) == IF p = "presence/users" THEN Queries \cup UserIdQueries ELSE Queries

Requests ==
    {r \in [method : Methods, path : Paths, authorization : {c.authorization : c \in Credentials},
            cookie : {c.cookie : c \in Credentials},
            contentType : {h.contentType : h \in HeaderProfiles},
            connection : {h.connection : h \in HeaderProfiles},
            upgrade : {h.upgrade : h \in HeaderProfiles},
            query : Queries \cup UserIdQueries] :
        /\ [authorization |-> r.authorization, cookie |-> r.cookie] \in Credentials
        /\ [contentType |-> r.contentType, connection |-> r.connection,
            upgrade |-> r.upgrade] \in HeaderProfiles
        /\ r.query \in QueriesOf(r.path)}

\* Seconds of clock the token check can see; Date.now() is in milliseconds.
MaxNow == 1

NowValues == {t * 1000 : t \in 0..MaxNow}

-----------------------------------------------------------------------------
(* Values the handler builds.                                               *)

NoOutcome == [kind |-> "none", status |-> 0, body |-> [none |-> TRUE]]

NoResponse == [status |-> 0, statusText |-> "", contentType |-> "", text |-> ""]

NoThrow == [message |-> "", env |-> ""]

\* setCorsHeaders
CorsHeaders ==
    {<<"Access-Control-Allow-Origin", "*">>,
     <<"Access-Control-Allow-Methods", "GET, POST, PUT, DELETE, OPTIONS, PATCH">>,
     <<"Access-Control-Allow-Headers", "Content-Type, Authorization, X-Requested-With, Accept">>,
     <<"Access-Control-Allow-Credentials", "true">>}

\* The outer catch: the object returned for a caught error.  The status of the
\* response is whatever the response object holds at that moment.
ProxyError(message, env, status) ==
    [kind |-> "proxyError", status |-> status,
     body |-> [error |-> "Proxy Error", message |-> message,
               stack |-> IF env = "development" THEN "stack" ELSE "undefined"]]

Init ==
    /\ req \in Requests
    /\ cfg \in BaseUrlConfigs
    /\ pc = "start"
    /\ pathString = ""
    /\ forcedMethod = ""
    /\ isAuthEndpoint = FALSE
    /\ service = ""
    /\ baseUrl = ""
    /\ isFileRequest = FALSE
    /\ url = ""
    /\ headers = [Authorization |-> ""]
    /\ options = [method |-> "", body |-> ""]
    /\ tokenLog = ""
    /\ calls = <<>>
    /\ response = NoResponse
    /\ resStatus = 200
    /\ resHeaders = {}
    /\ thrown = NoThrow
    /\ outcome = NoOutcome
    /\ bodyReads = 0

-----------------------------------------------------------------------------
(* Lines 119-276: path clean-up, forced method, auth endpoint, service.     *)

CleanPath(p) ==
    IF StartsWith(p, "api/proxy/") THEN Substring(p, 10)
    ELSE IF StartsWith(p, "proxy/") THEN Substring(p, 6)
    ELSE p

ForcedMethod(rawPath, method) ==
    IF Includes(rawPath, "friends/add") THEN "POST" ELSE method

IsAuthEndpoint(p) == p \in {"auth/login", "login", "auth/register", "register"}

IsMessagePath(p) ==
    \/ StartsWith(p, "message")
    \/ Includes(p, "/message")
    \/ StartsWith(p, "groups/messages")
    \/ (StartsWith(p, "group/") /\ Includes(p, "/messages"))

\* The branch of the else-if chain of lines 200-276 that the path takes
\* ("none" when no branch matches).
RouteBranch(p) ==
    IF StartsWith(p, "notifications") THEN "notifications"
    ELSE IF StartsWith(p, "presence") THEN "presence"
    ELSE IF (StartsWith(p, "groups") \/ StartsWith(p, "group")) /\ ~Includes(p, "message")
         THEN "group"
    ELSE IF StartsWith(p, "files") \/ StartsWith(p, "media") THEN "file"
    ELSE "none"

\* The service whose base URL is in baseUrl after the message test (lines
\* 187-197) and then the chain, which overwrites what the message test chose.
SelectService(p) ==
    LET first == IF IsMessagePath(p) THEN "Group" ELSE "General"
        branch == RouteBranch(p)
    IN  CASE branch = "notifications" -> "Notification"
          [] branch = "presence"      -> "Presence"
          [] branch = "group"         -> "Group"
          [] branch = "file"          -> "File"
          [] OTHER                    -> first

ServiceBase(c, s) ==
    CASE s = "Group"        -> c.GROUP_API_BASE_URL
      [] s = "Notification" -> c.NOTIFICATION_API_BASE_URL
      [] s = "Presence"     -> c.PRESENCE_SERVICE_BASE_URL
      [] s = "File"         -> c.FILE_SERVICE_BASE_URL
      [] OTHER              -> c.API_BASE_URL

\* baseUrl after the routing chain: the group branch passes the base through
\* ensureValidUrl, the presence/users branch adds a scheme when user_ids is given.
RoutedBaseUrl(c, p, q) ==
    LET b == ServiceBase(c, SelectService(p))
        branch == RouteBranch(p)
    IN  IF branch = "presence"
        THEN IF /\ StartsWith(p, "presence/users") /\ Len(q) > 0
                /\ QueryGet(q, "user_ids") # ""
                /\ ~StartsWith(b, "http://") /\ ~StartsWith(b, "https://")
             THEN "http://" \o b ELSE b
        ELSE IF branch = "group" THEN ensureValidUrl(b)
        ELSE b

IsFileRequest(p) == RouteBranch(p) = "file"

IsWebSocketRequest(r) ==
    /\ Includes(ToLowerCase(r.connection), "upgrade")
    /\ ToLowerCase(r.upgrade) = "websocket"

\* /^http/ replaced by "ws".
HttpToWs(b) == IF StartsWith(b, "http") THEN "ws" \o Substring(b, 4) ELSE b

WsTarget(c, p) ==
    IF StartsWith(p, "messages/ws") THEN HttpToWs(c.GROUP_API_BASE_URL) \o "/messages/ws"
    ELSE IF StartsWith(p, "presence/ws")
         THEN HttpToWs(c.PRESENCE_SERVICE_BASE_URL) \o "/presence/ws"
    ELSE ""

-----------------------------------------------------------------------------
(* Lines 400-724: the target URL.                                           *)

\* Whether a URL is one fetch can send: its scheme is http or https.
HasHttpScheme(u) == StartsWith(u, "http://") \/ StartsWith(u, "https://")

\* baseUrl.startsWith("http") ? baseUrl : "http://" + baseUrl
BaseWithProtocol(b) == IF StartsWith(b, "http") THEN b ELSE "http://" \o b

\* the same with the test startsWith("http://") || startsWith("https://")
BaseWithScheme(b) ==
    IF StartsWith(b, "http://") \/ StartsWith(b, "https://") THEN b ELSE "http://" \o b

RECURSIVE EncodeEach(_)
EncodeEach(ids) ==
    IF Len(ids) = 0 THEN <<>>
    ELSE <<EncodeURIComponent(Trim(ids[1]))>> \o EncodeEach(Tail(ids))

\* An encoding of the whole value at once, commas included.
EncodedUserIds_Whole(userIdsValue) == EncodeURIComponent(userIdsValue)

\* Lines 442-445: split on commas, each ID trimmed and encoded, joined with commas.
EncodedUserIds(userIdsValue) == Join(EncodeEach(Split(userIdsValue, ",")), ",")

IsMessageSub(p) == StartsWith(p, "messages/") \/ StartsWith(p, "message/")

\* A rewrite that keeps the singular form of the inbound path.
PluralMessageUrl_Singular(b, messageId) ==
    BaseWithProtocol(b) \o "/message/" \o messageId

\* Lines 489, 512, 535: `${baseWithProtocol}/messages/${messageId}`.
PluralMessageUrl(b, messageId) ==
    BaseWithProtocol(b) \o "/messages/" \o messageId

\* The URL of lines 400-666, before the query string is appended.
BuildUrl(p, method, b, isFile, q) ==
    LET parts == Split(p, "/")
        ids == QueryGet(q, "user_ids")
    IN
    IF p = "messages/history" \/ p = "message/history"
      THEN BaseWithProtocol(b) \o "/messages/history"
    ELSE IF StartsWith(p, "presence/users")
      THEN LET u == BaseWithProtocol(b) \o "/presence/users"
           IN  IF ids = "" THEN u
               ELSE IF Includes(ids, ",")
                    THEN u \o "?user_ids=" \o EncodedUserIds(ids)
               ELSE u \o "?" \o SearchParamsToString(<<<<"user_ids", ids>>>>)
    ELSE IF StartsWith(p, "message/") /\ Len(parts) = 2 /\ method = "GET"
      THEN PluralMessageUrl(b, parts[2])
    ELSE IF IsMessageSub(p) /\ Len(parts) >= 2 /\ method = "DELETE"
      THEN PluralMessageUrl(b, parts[2])
    ELSE IF IsMessageSub(p) /\ Len(parts) >= 2 /\ method \in {"PUT", "PATCH"}
      THEN PluralMessageUrl(b, parts[2])
    ELSE IF p \in {"messages", "message"} /\ method = "POST"
      THEN BaseWithProtocol(b) \o "/messages"
    ELSE IF IsMessageSub(p)
            /\ (Includes(p, "/read") \/ Includes(p, "/search") \/ Includes(p, "/unread-count"))
      THEN BaseWithProtocol(b) \o "/"
           \o (IF StartsWith(p, "message/") THEN ReplaceFirst(p, "message/", "messages/")
               ELSE p)
    ELSE IF StartsWith(p, "presence/")
      THEN BaseWithProtocol(b) \o "/" \o p
    ELSE IF isFile
      THEN IF StartsWith(p, "files/") THEN b \o "/api/files/" \o Substring(p, 6)
           ELSE IF StartsWith(p, "media/") THEN b \o "/api/media/" \o Substring(p, 6)
           ELSE IF p = "files" THEN b \o "/api/files"
           ELSE IF p = "media" THEN b \o "/api/media"
           ELSE b \o "/api/" \o p
    ELSE IF StartsWith(p, "presence") THEN b \o "/" \o p
    ELSE IF StartsWith(p, "notifications") THEN b \o "/" \o p
    ELSE IF StartsWith(p, "groups") \/ StartsWith(p, "group")
      THEN LET g == BaseWithScheme(b) \o "/" \o p
           IN  IF IsValidUrl(g) THEN g ELSE ensureValidUrl(g)
    ELSE BaseWithScheme(b) \o "/" \o p

\* Lines 668-677: the query string, unless the URL already has one.
AppendQuery(u, q) ==
    IF Includes(u, "?") \/ SearchParamsToString(q) = "" THEN u
    ELSE u \o "?" \o SearchParamsToString(q)

\* Lines 690-724: the repair of an invalid messages/history URL.
RepairHistoryUrl(p, u) ==
    IF Includes(p, "messages/history") /\ ~IsValidUrl(u) THEN ensureValidUrl(u) ELSE u

ResolveUrl(p, method, b, isFile, q) ==
    RepairHistoryUrl(p, AppendQuery(BuildUrl(p, method, b, isFile, q), q))

-----------------------------------------------------------------------------
(* Lines 739-786: the Authorization header of the outbound request.         *)

NormalizeBearer(a) == IF StartsWith(a, "Bearer ") THEN a ELSE "Bearer " \o a

\* Whether the cookie header is consulted for a token (line 759).
UsesCookie(r, authEndpoint) == r.cookie # "" /\ ~authEndpoint

AttachCredentials(r, authEndpoint) ==
    IF r.authorization # "" THEN NormalizeBearer(r.authorization)
    ELSE IF UsesCookie(r, authEndpoint) /\ CookieGet(r.cookie, "auth_token") # ""
         THEN "Bearer " \o CookieGet(r.cookie, "auth_token")
    ELSE ""

\* Lines 808-844: the Authorization header of the multipart proxy request.
ProxyAuthorization(r, hdrAuth) ==
    IF hdrAuth # "" THEN hdrAuth
    ELSE IF r.authorization # "" THEN NormalizeBearer(r.authorization)
    ELSE IF r.cookie # "" /\ CookieGet(r.cookie, "auth_token") # ""
         THEN "Bearer " \o CookieGet(r.cookie, "auth_token")
    ELSE ""

IsMultipart(r) == Includes(r.contentType, "multipart/form-data")

-----------------------------------------------------------------------------
(* Backend responses.                                                       *)

StatusText(st) ==
    CASE st = 200 -> "OK"
      [] st = 201 -> "Created"
      [] st = 404 -> "Not Found"
      [] OTHER    -> "Internal Server Error"

JsonBody == "{\"message\":\"not found\"}"

\* A JSON document that is a string, not an object.
JsonStringBody == "\"gone\""

\* Status, content type and body text of the backend responses: a JSON object,
\* a body announced as JSON that is none, a JSON string, plain text.
ResponseShapes ==
    {<<200, "application/json; charset=utf-8", JsonBody>>,
     <<200, "application/json", "<html>Bad Gateway</html>">>,
     <<200, "text/plain", "pong">>,
     <<201, "application/json; charset=utf-8", JsonBody>>,
     <<404, "application/json; charset=utf-8", JsonBody>>,
     <<404, "application/json", "<html>Bad Gateway</html>">>,
     <<404, "application/json", JsonStringBody>>,
     <<500, "text/plain", "Service unavailable">>}

Responses ==
    {[status |-> r[1], statusText |-> StatusText(r[1]), contentType |-> r[2], text |-> r[3]] :
        r \in ResponseShapes}

\* response.ok
Ok(resp) == resp.status >= 200 /\ resp.status <= 299

\* response.json() on the bodies above: the parsed value (an object or a
\* string), or a failure.
ParseJson(text) ==
    CASE text = JsonBody ->
           [ok |-> TRUE, type |-> "object", object |-> [message |-> "not found"],
            string |-> ""]
      [] text = JsonStringBody ->
           [ok |-> TRUE, type |-> "string", object |-> [message |-> ""], string |-> "gone"]
      [] OTHER ->
           [ok |-> FALSE, type |-> "", object |-> [message |-> ""], string |-> ""]

\* {...obj, ...extra}
Spread(obj, extra) ==
    [k \in DOMAIN obj \cup DOMAIN extra |-> IF k \in DOMAIN extra THEN extra[k] ELSE obj[k]]

IsJsonType(ct) == ct # "" /\ Includes(ct, "application/json")

\* Lines 958-977: errorBody when it is a string (the text of the response, a
\* JSON string, or the note left by a failed read), "is" telling whether it is.
ErrorText(resp) ==
    LET parsed == ParseJson(resp.text)
    IN  IF ~IsJsonType(resp.contentType) THEN [is |-> TRUE, text |-> resp.text]
        ELSE IF ~parsed.ok THEN [is |-> TRUE, text |-> "Error parsing response"]
        ELSE IF parsed.type = "string" THEN [is |-> TRUE, text |-> parsed.string]
        ELSE [is |-> FALSE, text |-> ""]

\* An error body that passes the parsed JSON on without status and statusText.
ErrorBody_NotAugmented(resp) ==
    IF ErrorText(resp).is
    THEN [error |-> TRUE, message |-> ErrorText(resp).text,
          status |-> resp.status, statusText |-> resp.statusText]
    ELSE ParseJson(resp.text).object

\* Lines 952-996: the body returned for a non-2xx response.
ErrorBody(resp) ==
    IF ErrorText(resp).is
    THEN [error |-> TRUE, message |-> ErrorText(resp).text,
          status |-> resp.status, statusText |-> resp.statusText]
    ELSE Spread(ParseJson(resp.text).object,
                [status |-> resp.status, statusText |-> resp.statusText])

\* Lines 998-1005.
IsFileDownload(isFile, p, method, resp) ==
    /\ isFile
    /\ Includes(p, "/files/")
    /\ method = "GET"
    /\ resp.contentType # ""
    /\ ~Includes(resp.contentType, "application/json")

\* Lines 1023-1038: the value returned for a successful response.
SuccessBody(resp) ==
    LET parsed == ParseJson(resp.text)
    IN  IF IsJsonType(resp.contentType)
        THEN IF ~parsed.ok THEN [error |-> "Failed to parse response"]
             ELSE IF parsed.type = "string" THEN parsed.string
             ELSE parsed.object
        ELSE resp.text

-----------------------------------------------------------------------------
(* The handler, one action per stretch of code between two awaits or       *)
(* returns.                                                                 *)

\* A preflight test that compares with the wrong method name.
IsPreflight_WrongName(m) == m = "OPTION"

IsPreflight(m) == m = "OPTIONS"

\* An outer catch that logs the error and throws it again.
Caught_Rethrows(message) ==
    /\ thrown' = [message |-> message, env |-> ""]
    /\ outcome' = outcome
    /\ pc' = "crashed"

\* The outer catch (lines 1039-1046): NODE_ENV is read there.
Caught(message) ==
    \E env \in NodeEnvs :
        /\ thrown' = [message |-> message, env |-> env]
        /\ outcome' = ProxyError(message, env, resStatus)
        /\ pc' = "done"

\* Lines 100-117.
Preflight ==
    /\ pc = "start"
    /\ IsPreflight(req.method)
    /\ resHeaders' = CorsHeaders \cup {<<"Access-Control-Max-Age", "86400">>}
    /\ outcome' = [kind |-> "preflight", status |-> 200, body |-> [null |-> TRUE]]
    /\ pc' = "done"
    /\ UNCHANGED <<req, cfg, pathString, forcedMethod, isAuthEndpoint, service, baseUrl,
                   isFileRequest, url, headers, options, tokenLog, calls, response,
                   resStatus, thrown, bodyReads>>

\* Lines 103-276 for a request that is no preflight.
Classified ==
    /\ pc = "start"
    /\ ~IsPreflight(req.method)
    /\ resHeaders' = CorsHeaders
    /\ pathString' = CleanPath(req.path)
    /\ forcedMethod' = ForcedMethod(req.path, req.method)
    /\ isAuthEndpoint' = IsAuthEndpoint(pathString')
    /\ service' = SelectService(pathString')
    /\ baseUrl' = RoutedBaseUrl(cfg, pathString', req.query)
    /\ isFileRequest' = IsFileRequest(pathString')

TakesWsProxy == IsWebSocketRequest(req) /\ WsTarget(cfg, CleanPath(req.path)) # ""

\* Lines 278-373: the upgrade handshake handed to proxyRequest, which sends the
\* inbound method, body and headers, the headers given here overriding them.
WebSocketProxy ==
    /\ Classified
    /\ TakesWsProxy
    /\ LET target == WsTarget(cfg, pathString')
           qs == SearchParamsToString(req.query)
           qtoken == QueryGet(req.query, "token")
           token == IF qtoken = "" /\ req.cookie # ""
                    THEN CookieGet(req.cookie, "auth_token") ELSE qtoken
       IN  IF ~IsValidUrl(target)
           THEN /\ Caught("Invalid URL")
                /\ UNCHANGED calls
           ELSE /\ calls' = Append(calls,
                        [via |-> "proxyRequest",
                         url |-> IF qs = "" THEN target ELSE target \o "?" \o qs,
                         method |-> req.method,
                         authorization |-> IF token # "" THEN "Bearer " \o token
                                           ELSE req.authorization,
                         contentType |-> req.contentType,
                         body |-> "inbound stream"])
                /\ pc' = "proxying"
                /\ UNCHANGED <<thrown, outcome>>
    /\ UNCHANGED <<req, cfg, url, headers, options, tokenLog, response, resStatus, bodyReads>>

\* A fallback that builds the URL without looking whether a token was given.
PresenceWsFallback_NoTokenTest ==
    /\ Classified
    /\ ~TakesWsProxy
    /\ Includes(pathString', "presence/ws")
    /\ LET token == QueryGet(req.query, "token")
           wsBaseUrl == ReplaceFirst(HttpToWs(cfg.PRESENCE_SERVICE_BASE_URL), "/api", "")
       IN  /\ outcome' = [kind |-> "wsUrl", status |-> resStatus,
                          body |-> [wsUrl |-> wsBaseUrl \o "/presence/ws?token=" \o token]]
           /\ pc' = "done"
           /\ UNCHANGED thrown
    /\ UNCHANGED <<req, cfg, url, headers, options, tokenLog, calls, response, resStatus,
                   bodyReads>>

\* Lines 375-398: a path holding presence/ws that was not proxied above.
PresenceWsFallback ==
    /\ Classified
    /\ ~TakesWsProxy
    /\ Includes(pathString', "presence/ws")
    /\ LET token == QueryGet(req.query, "token")
           wsBaseUrl == ReplaceFirst(HttpToWs(cfg.PRESENCE_SERVICE_BASE_URL), "/api", "")
       IN  IF token = ""
           THEN Caught("No token provided for WebSocket connection")
           ELSE /\ outcome' = [kind |-> "wsUrl", status |-> resStatus,
                               body |-> [wsUrl |-> wsBaseUrl \o "/presence/ws?token=" \o token]]
                /\ pc' = "done"
                /\ UNCHANGED thrown
    /\ UNCHANGED <<req, cfg, url, headers, options, tokenLog, calls, response, resStatus,
                   bodyReads>>

\* Lines 400-786: every other request goes on to URL construction and
\* credentials.
Resolve ==
    /\ Classified
    /\ ~TakesWsProxy
    /\ ~Includes(pathString', "presence/ws")
    /\ url' = ResolveUrl(pathString', req.method, baseUrl', isFileRequest', req.query)
    /\ headers' = [Authorization |-> AttachCredentials(req, isAuthEndpoint')]
    /\ options' = [method |-> forcedMethod', body |-> ""]
    /\ pc' = "body"
    /\ UNCHANGED <<req, cfg, tokenLog, calls, response, resStatus, thrown, outcome,
                   bodyReads>>

\* Lines 788-868: a multipart upload is handed to sendProxy with the target and
\* the headers built here (content-type and content-length left out) and
\* nothing else; the handler does not read the body.
MultipartProxy ==
    /\ pc = "body"
    /\ req.method \in BodyMethods
    /\ IsMultipart(req)
    /\ IF ~IsValidUrl(url)
       THEN /\ Caught("Failed to proxy file upload")
            /\ UNCHANGED calls
       ELSE /\ calls' = Append(calls,
                    [via |-> "sendProxy",
                     url |-> url,
                     method |-> "",
                     authorization |-> ProxyAuthorization(req, headers.Authorization),
                     contentType |-> "",
                     body |-> ""])
            /\ pc' = "proxying"
            /\ UNCHANGED <<thrown, outcome>>
    /\ UNCHANGED <<req, cfg, pathString, forcedMethod, isAuthEndpoint, service, baseUrl,
                   isFileRequest, url, headers, options, tokenLog, response, resStatus,
                   resHeaders, bodyReads>>

\* Lines 869-872: a body method with another content type awaits readBody.
BeginReadBody ==
    /\ pc = "body"
    /\ req.method \in BodyMethods
    /\ ~IsMultipart(req)
    /\ bodyReads' = bodyReads + 1
    /\ pc' = "readBody"
    /\ UNCHANGED <<req, cfg, pathString, forcedMethod, isAuthEndpoint, service, baseUrl,
                   isFileRequest, url, headers, options, tokenLog, calls, response,
                   resStatus, resHeaders, thrown, outcome>>

\* What readBody yields: a parsed object, nothing, or a failure.
BodyResults == {"{\"text\":\"hi\"}", "", "fail"}

\* A body read whose failure is logged and not rethrown.
ReadBody_SwallowsFailure ==
    /\ pc = "readBody"
    /\ \E b \in BodyResults :
          IF b = "fail"
          THEN /\ thrown' = [message |-> "Failed to process request body", env |-> ""]
               /\ pc' = "validate"
               /\ UNCHANGED <<options, outcome>>
          ELSE /\ options' = [options EXCEPT !.body = b]
               /\ pc' = "validate"
               /\ UNCHANGED <<thrown, outcome>>
    /\ UNCHANGED <<req, cfg, pathString, forcedMethod, isAuthEndpoint, service, baseUrl,
                   isFileRequest, url, headers, tokenLog, calls, response, resStatus,
                   resHeaders, bodyReads>>

\* Lines 872-903.
ReadBody ==
    /\ pc = "readBody"
    /\ \E b \in BodyResults :
          IF b = "fail"
          THEN /\ Caught("Failed to process request body")
               /\ UNCHANGED options
          ELSE /\ options' = [options EXCEPT !.body = b]
               /\ pc' = "validate"
               /\ UNCHANGED <<thrown, outcome>>
    /\ UNCHANGED <<req, cfg, pathString, forcedMethod, isAuthEndpoint, service, baseUrl,
                   isFileRequest, url, headers, tokenLog, calls, response, resStatus,
                   resHeaders, bodyReads>>

\* Lines 904-907: GET, HEAD and OPTIONS read no body.
SkipBody ==
    /\ pc = "body"
    /\ req.method \notin BodyMethods
    /\ pc' = "validate"
    /\ UNCHANGED <<req, cfg, pathString, forcedMethod, isAuthEndpoint, service, baseUrl,
                   isFileRequest, url, headers, options, tokenLog, calls, response,
                   resStatus, resHeaders, thrown, outcome, bodyReads>>

\* A handler that stops at a token validateToken rejects.
AfterTokenCheck_Rejecting(valid) == IF valid THEN "urlcheck" ELSE "rejected"

\* Lines 915-927: both outcomes of validateToken are logged and the handler
\* goes on.
AfterTokenCheck(valid) == "urlcheck"

\* Lines 909-930.
ValidateTokenStep ==
    /\ pc = "validate"
    /\ IF isAuthEndpoint
       THEN /\ tokenLog' = "Skipping token validation for auth endpoint"
            /\ pc' = "urlcheck"
       ELSE \E now \in NowValues :
              LET token == ReplaceFirst(headers.Authorization, "Bearer ", "")
                  check == validateToken(token, now)
              IN  /\ tokenLog' = check.log
                  /\ pc' = AfterTokenCheck(check.valid)
    /\ UNCHANGED <<req, cfg, pathString, forcedMethod, isAuthEndpoint, service, baseUrl,
                   isFileRequest, url, headers, options, calls, response, resStatus,
                   resHeaders, thrown, outcome, bodyReads>>

\* Lines 932-946: the URL is validated and the request is issued.
UrlCheckAndFetch ==
    /\ pc = "urlcheck"
    /\ IF ~IsValidUrl(url)
       THEN /\ Caught("Cannot create a valid URL: " \o url)
            /\ UNCHANGED calls
       ELSE /\ calls' = Append(calls,
                    [via |-> "fetch",
                     url |-> url,
                     method |-> options.method,
                     authorization |-> headers.Authorization,
                     contentType |-> "application/json",
                     body |-> options.body])
            /\ pc' = "fetching"
            /\ UNCHANGED <<thrown, outcome>>
    /\ UNCHANGED <<req, cfg, pathString, forcedMethod, isAuthEndpoint, service, baseUrl,
                   isFileRequest, url, headers, options, tokenLog, response, resStatus,
                   resHeaders, bodyReads>>

\* Line 946: the backend answers.  fetch rejects a URL of another scheme
\* without sending anything.
FetchResponse ==
    /\ pc = "fetching"
    /\ HasHttpScheme(url)
    /\ response' \in Responses
    /\ pc' = "respond"
    /\ UNCHANGED <<req, cfg, pathString, forcedMethod, isAuthEndpoint, service, baseUrl,
                   isFileRequest, url, headers, options, tokenLog, calls, resStatus,
                   resHeaders, thrown, outcome, bodyReads>>

\* Line 946: the network call fails.
FetchFail ==
    /\ pc = "fetching"
    /\ Caught("fetch failed")
    /\ UNCHANGED <<req, cfg, pathString, forcedMethod, isAuthEndpoint, service, baseUrl,
                   isFileRequest, url, headers, options, tokenLog, calls, response,
                   resStatus, resHeaders, bodyReads>>

\* Lines 952-1038: the response is turned into the value returned.
Respond ==
    /\ pc = "respond"
    /\ IF ~Ok(response)
       THEN /\ resStatus' = response.status
            /\ outcome' = [kind |-> "upstreamError", status |-> resStatus',
                           body |-> ErrorBody(response)]
            /\ UNCHANGED resHeaders
       ELSE IF IsFileDownload(isFileRequest, pathString, req.method, response)
       THEN /\ resHeaders' = resHeaders \cup {<<"content-type", response.contentType>>}
            /\ outcome' = [kind |-> "binary", status |-> resStatus,
                           body |-> response.text]
            /\ UNCHANGED resStatus
       ELSE /\ outcome' = [kind |-> "data", status |-> resStatus,
                           body |-> SuccessBody(response)]
            /\ UNCHANGED <<resStatus, resHeaders>>
    /\ pc' = "done"
    /\ UNCHANGED <<req, cfg, pathString, forcedMethod, isAuthEndpoint, service, baseUrl,
                   isFileRequest, url, headers, options, tokenLog, calls, response,
                   thrown, bodyReads>>

\* Lines 330 and 861: sendProxy and proxyRequest relay the backend's status
\* and body to the caller as they are.
ProxyRelay ==
    /\ pc = "proxying"
    /\ response' \in Responses
    /\ resStatus' = response'.status
    /\ outcome' = [kind |-> "proxied", status |-> response'.status,
                   body |-> [stream |-> response'.text]]
    /\ pc' = "done"
    /\ UNCHANGED <<req, cfg, pathString, forcedMethod, isAuthEndpoint, service, baseUrl,
                   isFileRequest, url, headers, options, tokenLog, calls, resHeaders,
                   thrown, bodyReads>>

\* Lines 330 and 861: the proxied call fails.  The promise was returned without
\* being awaited, so its rejection passes both catch blocks of the handler and
\* the framework answers with its own gateway error.
ProxyFail ==
    /\ pc = "proxying"
    /\ thrown' = [message |-> "Bad Gateway", env |-> ""]
    /\ resStatus' = 502
    /\ outcome' = [kind |-> "unhandledRejection", status |-> 502,
                   body |-> [statusCode |-> 502, statusMessage |-> "Bad Gateway"]]
    /\ pc' = "done"
    /\ UNCHANGED <<req, cfg, pathString, forcedMethod, isAuthEndpoint, service, baseUrl,
                   isFileRequest, url, headers, options, tokenLog, calls, response,
                   resHeaders, bodyReads>>

Next ==
    \/ Preflight
    \/ WebSocketProxy
    \/ PresenceWsFallback
    \/ Resolve
    \/ MultipartProxy
    \/ BeginReadBody
    \/ ReadBody
    \/ SkipBody
    \/ ValidateTokenStep
    \/ UrlCheckAndFetch
    \/ FetchResponse
    \/ FetchFail
    \/ Respond
    \/ ProxyRelay
    \/ ProxyFail

Spec == Init /\ [][Next]_vars

\* Every step is synchronous code or the completion of an awaited call
\* (readBody, fetch, sendProxy, proxyRequest), which completes or fails.
LivePaths ==
    {"users/profile", "messages/ws", "presence/ws", "notifications", "files/a.png",
     "media/files/a.png"}

\* Requests that between them take every path through the handler.
LiveRequests ==
    {r \in Requests : /\ r.path \in LivePaths
                      /\ r.method \in {"GET", "POST", "OPTIONS"}
                      /\ Len(r.query) <= 1}

FairInit == Init /\ req \in LiveRequests

FairSpec == FairInit /\ [][Next]_vars /\ WF_vars(Next)

-----------------------------------------------------------------------------
(* Properties.                                                              *)

\* The paths C1 is about: a message or messages prefix, or /message inside,
\* but no group path without /messages.
ClaimedMessagePath(p) ==
    \/ StartsWith(p, "message")
    \/ /\ Includes(p, "/message")
       /\ ~(StartsWith(p, "group") /\ ~Includes(p, "/messages"))

\* C1: every request whose normalized path is a message path is resolved
\* against the Group service; no later routing rule replaces Group.
C1_MessagePathsRouteToGroup ==
    (service # "" /\ ClaimedMessagePath(pathString)) => service = "Group"

\* A cookie that carries auth_token, on an auth endpoint, without an inbound
\* Authorization header.
CookieOnlyAuthRequest ==
    /\ IsAuthEndpoint(CleanPath(req.path))
    /\ req.authorization = ""
    /\ CookieGet(req.cookie, "auth_token") # ""

\* C2: a request to an auth endpoint that has only a cookie token sends no
\* Authorization header derived from the cookie, in every transport mode.
C2_AuthEndpointIgnoresCookie ==
    CookieOnlyAuthRequest => \A i \in 1..Len(calls) : calls[i].authorization = ""

\* C3: an inbound Authorization header goes out as that value with exactly one
\* Bearer prefix, on every path.
C3_InboundAuthorizationForwarded ==
    req.authorization # "" =>
        \A i \in 1..Len(calls) : calls[i].authorization = NormalizeBearer(req.authorization)

\* C4: once the token check has run, whatever it found, the handler is at the
\* URL check with the URL, method, headers and body it had resolved and read,
\* and the call it then issues is made of exactly these: the call it would
\* issue without the check.
C4_TokenCheckNeverBlocks ==
    tokenLog # "" =>
        /\ pc \in {"urlcheck", "fetching", "respond", "done"}
        /\ pc = "urlcheck" =>
              /\ url = ResolveUrl(pathString, req.method, baseUrl, isFileRequest, req.query)
              /\ headers = [Authorization |-> AttachCredentials(req, isAuthEndpoint)]
              /\ options.method = forcedMethod
              /\ calls = <<>>
        /\ pc = "fetching" =>
              calls = <<[via |-> "fetch", url |-> url, method |-> options.method,
                         authorization |-> headers.Authorization,
                         contentType |-> "application/json", body |-> options.body]>>
        /\ pc = "done" /\ calls = <<>> => thrown.message # ""

\* C4 witness: an expired token was found and the call was issued all the same.
C4_Witness ==
    /\ tokenLog = "Token may be expired"
    /\ pc = "fetching"
    /\ Len(calls) = 1

\* The handler's own call got a non-2xx response and the request is finished.
UpstreamErrorDone ==
    /\ pc = "done"
    /\ response # NoResponse
    /\ ~Ok(response)
    /\ calls[1].via = "fetch"

C6_StatusPreserved ==
    (pc = "done" /\ response # NoResponse) => outcome.status = response.status

\* C7: every exception ends as {error: "Proxy Error", message, stack} with a
\* non-success status, the stack only outside production.
C7_ExceptionsBecomeProxyErrors ==
    thrown.message # "" =>
        /\ outcome.kind = "proxyError"
        /\ outcome.body.error = "Proxy Error"
        /\ outcome.body.message = thrown.message
        /\ ~(outcome.status >= 200 /\ outcome.status <= 299)
        /\ outcome.body.stack # "undefined" => thrown.env # "production"

\* A body failure or an invalid URL was raised.
AbortRaised ==
    \/ thrown.message = "Failed to process request body"
    \/ thrown.message = "Failed to proxy file upload"
    \/ StartsWith(thrown.message, "Cannot create a valid URL")

\* C8: a body failure or an invalid resolved URL ends the request with a proxy
\* error and without any outbound call; no call is ever issued to an invalid URL.
C8_AbortBeforeAnyCall ==
    /\ AbortRaised =>
          /\ pc = "done"
          /\ calls = <<>>
          /\ outcome.kind = "proxyError"
          /\ outcome.body.error = "Proxy Error"
    /\ \A i \in 1..Len(calls) : IsValidUrl(calls[i].url)

\* C8 witness: the body was read, the URL then proved invalid, nothing was sent.
C8_Witness ==
    /\ StartsWith(thrown.message, "Cannot create a valid URL")
    /\ bodyReads = 1
    /\ pc = "done"
    /\ calls = <<>>

\* C9: an OPTIONS request ends at once with status 200, no body and the CORS
\* headers, without classification, body read or outbound call.
C9_PreflightShortCircuits ==
    (req.method = "OPTIONS" /\ pc # "start") =>
        /\ pc = "done"
        /\ outcome = [kind |-> "preflight", status |-> 200, body |-> [null |-> TRUE]]
        /\ CorsHeaders \subseteq resHeaders
        /\ service = "" /\ pathString = "" /\ url = ""
        /\ bodyReads = 0
        /\ calls = <<>>

\* C9 witness: a preflight for an upgrade handshake on a message path was answered.
C9_Witness ==
    /\ req.method = "OPTIONS"
    /\ req.path = "messages/ws"
    /\ req.upgrade = "WebSocket"
    /\ pc = "done"
    /\ outcome.status = 200

\* Whether u holds // somewhere other than in the scheme separator.
DoubleSlashOutsideScheme(u) == Includes(ReplaceFirst(u, "://", ":"), "//")

\* C10: no URL handed to an outbound call holds // outside the scheme separator.
C10_NoDuplicateSlashes ==
    \A i \in 1..Len(calls) : ~DoubleSlashOutsideScheme(calls[i].url)

\* C11: on every routing branch and for every configured base URL, the
\* resolved URL, and the URL of every outbound HTTP call, starts with http://
\* or https://.
C11_UrlHasScheme ==
    /\ pc \in {"body", "readBody", "validate", "urlcheck", "fetching", "respond"}
          => HasHttpScheme(url)
    /\ \A i \in 1..Len(calls) :
          calls[i].via \in {"fetch", "sendProxy"} => HasHttpScheme(calls[i].url)

\* The query string of the inbound request as it is appended to a URL.
QuerySuffix(q) ==
    IF SearchParamsToString(q) = "" THEN "" ELSE "?" \o SearchParamsToString(q)

\* The Group base URL, with its scheme.
GroupBase == IF HasHttpScheme(cfg.GROUP_API_BASE_URL) THEN cfg.GROUP_API_BASE_URL
             ELSE "http://" \o cfg.GROUP_API_BASE_URL

\* message/{id} with GET, message/{id} or messages/{id} with DELETE, PUT, PATCH.
IsMessageIdRequest ==
    LET parts == Split(pathString, "/")
    IN  /\ url # ""
        /\ Len(parts) = 2
        /\ \/ parts[1] = "message" /\ req.method = "GET"
           \/ parts[1] \in {"message", "messages"} /\ req.method \in {"DELETE", "PUT", "PATCH"}

\* C12: message/{id} with GET, and message/{id} or messages/{id} with DELETE,
\* PUT or PATCH, resolve to <groupBase>/messages/{id} plus the query string.
C12_MessageIdRewrite ==
    IsMessageIdRequest =>
        url = GroupBase \o "/messages/" \o Split(pathString, "/")[2] \o QuerySuffix(req.query)

\* C12 witness: a PATCH of message/42 with a query string, ready to be sent.
C12_Witness ==
    /\ pc = "urlcheck"
    /\ IsMessageIdRequest
    /\ req.method = "PATCH"
    /\ pathString = "message/42"
    /\ req.query # <<>>
    /\ cfg = BareHostConfig

\* The character a percent escape stands for.
EscapedChar(e) ==
    CASE e = "%2C" -> ","
      [] e = "%2F" -> "/"
      [] e = "%20" -> " "
      [] e = "%3D" -> "="
      [] e = "%26" -> "&"
      [] e = "%3F" -> "?"
      [] e = "%3A" -> ":"
      [] e = "%25" -> "%"
      [] OTHER     -> ";"

RECURSIVE PercentDecode(_)
\* Percent-decoding of one component.
PercentDecode(s) ==
    IF s = "" THEN ""
    ELSE IF Head(s) = "%" /\ Len(s) >= 3
         THEN EscapedChar(SubSeq(s, 1, 3)) \o PercentDecode(Substring(s, 3))
    ELSE Head(s) \o PercentDecode(Tail(s))

RECURSIVE DecodeEach(_)
DecodeEach(parts) ==
    IF Len(parts) = 0 THEN <<>>
    ELSE <<PercentDecode(parts[1])>> \o DecodeEach(Tail(parts))

RECURSIVE TrimEach(_)
TrimEach(parts) ==
    IF Len(parts) = 0 THEN <<>> ELSE <<Trim(parts[1])>> \o TrimEach(Tail(parts))

\* The value of user_ids in the resolved URL, up to the next parameter.
UpstreamUserIds ==
    Split(Substring(url, IndexOf(url, "user_ids=") - 1 + Len("user_ids=")), "&")[1]

\* A request to presence/users that carries user_ids, once its URL is resolved.
UserIdsResolved ==
    /\ url # ""
    /\ StartsWith(pathString, "presence/users")
    /\ QueryGet(req.query, "user_ids") # ""

\* C13 as stated: the user_ids value of the resolved URL, split on commas and
\* percent-decoded component by component, is the inbound list of IDs.
C13_Original ==
    UserIdsResolved =>
        /\ Includes(url, "user_ids=")
        /\ DecodeEach(Split(UpstreamUserIds, ",")) = Split(QueryGet(req.query, "user_ids"), ",")

\* C13 amended: for a user_ids value that holds a comma, the user_ids value of
\* the resolved URL, split on commas and percent-decoded component by
\* component, is the inbound list with every ID trimmed of the white space
\* around it; a value without a comma is sent form-encoded.
C13_UserIdsRoundTrip ==
    UserIdsResolved =>
        /\ Includes(url, "user_ids=")
        /\ IF Includes(QueryGet(req.query, "user_ids"), ",")
           THEN DecodeEach(Split(UpstreamUserIds, ","))
                    = TrimEach(Split(QueryGet(req.query, "user_ids"), ","))
           ELSE UpstreamUserIds = FormEncode(QueryGet(req.query, "user_ids"))

\* C13 witness: a list whose IDs need encoding and trimming, resolved.
C13_Witness ==
    /\ pc = "urlcheck"
    /\ UserIdsResolved
    /\ QueryGet(req.query, "user_ids") = "a b, c"
    /\ UpstreamUserIds = "a%20b,c"

\* C14: for a POST, PUT, PATCH or DELETE whose Content-Type holds
\* multipart/form-data, the handler never reads the body and the headers of
\* the upstream call carry the inbound Content-Type unchanged.
C14_MultipartPassThrough ==
    (req.method \in {"POST", "PUT", "PATCH", "DELETE"}
        /\ Includes(req.contentType, "multipart/form-data")) =>
        /\ bodyReads = 0
        /\ \A i \in 1..Len(calls) : calls[i].contentType = req.contentType

\* C15: every request ends in exactly one outcome: the handler has returned
\* exactly when an outcome exists, nothing happens after it, and, the awaited
\* calls completing or failing, every request gets there.
C15_ExactlyOneOutcome ==
    /\ [](pc = "done" <=> outcome.kind # "none")
    /\ [][outcome.kind = "none" /\ pc # "done"]_vars
    /\ <>(pc = "done")

\* C15 witness: a request answered with a Proxy Error after its backend call
\* failed.
C15_Witness ==
    /\ pc = "done"
    /\ outcome.kind = "proxyError"
    /\ Len(calls) = 1
    /\ thrown.message = "fetch failed"

\* A base URL as a WebSocket URL: http becomes ws, https becomes wss.
WsSchemeOf(b) ==
    IF StartsWith(b, "https://") THEN "wss://" \o Substring(b, 8)
    ELSE IF StartsWith(b, "http://") THEN "ws://" \o Substring(b, 7)
    ELSE "ws://" \o b

\* An upgrade handshake (no preflight) for the given path prefix, once handled.
UpgradeHandled(prefix) ==
    /\ pc # "start"
    /\ req.method # "OPTIONS"
    /\ Includes(ToLowerCase(req.connection), "upgrade")
    /\ ToLowerCase(req.upgrade) = "websocket"
    /\ StartsWith(pathString, prefix)

\* One call, made by proxyRequest, to the WebSocket URL of the given base.
ProxiedToWs(b, path) ==
    /\ Len(calls) = 1
    /\ calls[1].via = "proxyRequest"
    /\ StartsWith(calls[1].url, WsSchemeOf(b) \o path)
    /\ bodyReads = 0

\* C16: an upgrade handshake whose path starts with messages/ws (presence/ws)
\* is proxied to the Group (Presence) service at a ws:// or wss:// URL, whatever
\* the HTTP routing rules say, and reads no body and makes no buffered call.
C16_UpgradeProxied ==
    /\ UpgradeHandled("messages/ws") => ProxiedToWs(cfg.GROUP_API_BASE_URL, "/messages/ws")
    /\ UpgradeHandled("presence/ws") => ProxiedToWs(cfg.PRESENCE_SERVICE_BASE_URL, "/presence/ws")

\* A GET routed to the File service that got a successful response whose
\* content type is not JSON, answered.
FileDownloadDone ==
    /\ pc = "done"
    /\ req.method = "GET"
    /\ StartsWith(pathString, "files") \/ StartsWith(pathString, "media")
    /\ response.status \in 200..299
    /\ ~Includes(response.contentType, "application/json")

\* C17: such a request is answered with the raw bytes of the response, every
\* response header copied onto the outbound response.
C17_FileDownloadRaw ==
    FileDownloadDone =>
        /\ outcome.kind = "binary"
        /\ outcome.body = response.text
        /\ <<"content-type", response.contentType>> \in resHeaders

\* Whether the i-th inbound query parameter is in the URL u: user_ids of
\* presence/users as the rewrite embeds it, every other parameter as
\* key=value in query-string encoding.
ParamPresent(u, i) ==
    IF StartsWith(pathString, "presence/users") /\ req.query[i][1] = "user_ids"
    THEN Includes(u, "user_ids=")
    ELSE Includes(u, FormEncode(req.query[i][1]) \o "=" \o FormEncode(req.query[i][2]))

\* C18: every inbound query parameter appears in the resolved upstream URL,
\* and in the URL of a proxied upgrade.
C18_QueryParamsForwarded ==
    /\ url # "" => \A i \in 1..Len(req.query) : ParamPresent(url, i)
    /\ \A n \in 1..Len(calls) : \A i \in 1..Len(req.query) : ParamPresent(calls[n].url, i)

\* A path with a leading singular message/ made plural.
PluralForm(p) == IF StartsWith(p, "message/") THEN "messages/" \o Substring(p, 8) ELSE p

\* A message or messages path that holds /read, /search or /unread-count,
\* once its URL is resolved.
MessageSubresourceResolved ==
    /\ url # ""
    /\ StartsWith(pathString, "message/") \/ StartsWith(pathString, "messages/")
    /\ \/ Includes(pathString, "/read")
       \/ Includes(pathString, "/search")
       \/ Includes(pathString, "/unread-count")

\* C19: for every method, such a path goes upstream as it came in, a leading
\* singular message/ made plural and everything after it kept.
C19_SubresourcePathKept ==
    MessageSubresourceResolved =>
        url = GroupBase \o "/" \o PluralForm(pathString) \o QuerySuffix(req.query)

\* The Presence WebSocket endpoint of the two configurations: the Presence
\* base with http turned into ws and /api taken out.
PresenceWsOrigin == IF cfg = DefaultConfig THEN "ws://localhost:8085" ELSE "presence-svc"

\* A request past the preflight whose normalized path holds presence/ws and
\* that did not take the WebSocket proxy branch.
PresenceWsNotProxied ==
    /\ pc # "start"
    /\ req.method # "OPTIONS"
    /\ Includes(pathString, "presence/ws")
    /\ ~(/\ Includes(ToLowerCase(req.connection), "upgrade")
         /\ ToLowerCase(req.upgrade) = "websocket"
         /\ StartsWith(pathString, "messages/ws") \/ StartsWith(pathString, "presence/ws"))

=============================================================================
